---- MODULE Spec2Model ----
(***************************************************************************)
(* Model of the policy-compliance-guardian orchestrator                    *)
(* (src/agents/orchestrator_agent.py): the Task retry runner               *)
(* (_create_task / _run_with_retry), the SessionManager and the            *)
(* run_compliance_check workflow, together with the part of                *)
(* ComparisonAgent.analyze_changes (src/agents/comparison_agent.py) that   *)
(* the compare step calls.                                                 *)
(*                                                                         *)
(* Python objects are modelled as heap cells: a Task is an index into      *)
(* `tasks`, and the lists task_queue / task_history hold such indices.     *)
(* Coroutines are modelled by their suspension points: a frame of          *)
(* _run_with_retry is suspended either in `await func(...)` ("call") or in *)
(* `await asyncio.sleep(...)` ("sleep"); the code between two suspension   *)
(* points runs atomically, as it does on the asyncio event loop.           *)
(***************************************************************************)
EXTENDS Integers, Sequences, FiniteSets, TLC

VARIABLES
    now,                \* reading of datetime.now(), in clock ticks
    tasks,              \* heap of Task objects (index = object identity)
    task_queue,         \* OrchestratorAgent.task_queue   (list of Task refs)
    task_history,       \* OrchestratorAgent.task_history (list of Task refs)
    frames,             \* per Task: the coroutine frame of _run_with_retry
    trace,              \* per Task: log of func invocations and backoff sleeps
    observed,           \* per Task: what func did last: exception raised, value returned
    agents,             \* OrchestratorAgent.agents (registry)
    active_sessions,    \* SessionManager.active_sessions  (dict id -> session)
    completed_sessions, \* SessionManager.completed_sessions (list)
    comparison_history, \* ComparisonAgent.comparison_history (list)
    runs,               \* per workflow run: frame of run_compliance_check
    batch,              \* frame of run_batch_compliance_checks
    session_log,        \* calls made on the SessionManager by its user
    text_call,          \* last call made on ComparisonAgent's text functions
    sender,             \* the EmailSender and the send_email call made on it
    notifier            \* the NotificationAgent and its last send_notification

vars == <<now, tasks, task_queue, task_history, frames, trace, observed,
          agents, active_sessions, completed_sessions, comparison_history, runs,
          batch, session_log, text_call, sender, notifier>>

taskVars == <<tasks, task_queue, task_history, frames, trace, observed>>
sessionVars == <<active_sessions, completed_sessions>>
agentVars == <<agents, comparison_history>>
mailVars == <<sender, notifier>>
\* the callers of run_compliance_check, of the SessionManager and of the
\* ComparisonAgent's text functions, and the notification side
callerVars == <<batch, session_log, text_call, sender, notifier>>

----------------------------------------------------------------------------
(* Bounds *)

MaxTasks == 2          \* tasks created directly through _create_task
MaxRetryLimit == 3     \* largest max_retries a caller gives a Task
MaxFaults == 4         \* exceptions the collaborators raise during the runs

ClockReadings == {0, 1}            \* readings of datetime.now()

(* Program constants *)

DefaultMaxRetries == 3 \* Task.max_retries default
BackoffBase == 2       \* asyncio.sleep(2 ** task.retry_count)

TestPolicy == "Test Policy"        \* the policy name the evaluation test uses
Errors == {"e1", "e2"}             \* messages of the exceptions a step raises
RunErrors == {"e1"}                \* ... that a collaborator of a run raises
StepNames == {"monitor", "comparison", "update", "notification", "memory"}
TaskTypes == StepNames \cup {"test"}

NoneTime == -1                     \* None in an Optional[datetime] field
NoneStr == "<None>"                \* None in an Optional[str] field
NoResult == [none |-> TRUE]        \* a frame that has not returned
NoObservation == [exc |-> NoneStr, val |-> NoResult]
CALL == 0                          \* trace entry: one invocation of func

\* TaskStatus
PENDING == "pending"
RUNNING == "running"
SUCCESS == "success"
FAILED == "failed"
RETRYING == "retrying"

ValueErrorMsg == "list.remove(x): x not in list"
MaxRetriesExceeded == [success |-> FALSE, error |-> "Max retries exceeded"]

----------------------------------------------------------------------------
(* Helpers *)

RECURSIVE Pow(_, _)
Pow(b, n) == IF n = 0 THEN 1 ELSE b * Pow(b, n - 1)

Range(s) == {s[i] : i \in DOMAIN s}

\* dict.get(k, default) and `k in dict` on a dict modelled as a record
Has(d, k) == k \in DOMAIN d
Get(d, k, default) == IF k \in DOMAIN d THEN d[k] ELSE default

RemoveAt(s, i) == [j \in 1..(Len(s) - 1) |-> IF j < i THEN s[j] ELSE s[j + 1]]

\* list.remove(x) on a list of Task refs: Task is a dataclass, so the first
\* element that is x or compares equal to x field by field is removed.
\* heap is the heap at the time of the call.
EqIndices(list, t, heap) == {i \in DOMAIN list : list[i] = t \/ heap[list[i]] = heap[t]}
CanRemove(list, t, heap) == EqIndices(list, t, heap) # {}
FirstEq(list, t, heap) ==
    CHOOSE i \in EqIndices(list, t, heap) : \A j \in EqIndices(list, t, heap) : i <= j
\* the task left in the list
ListRemoveNothing(list, t, heap) == list

ListRemove(list, t, heap) == RemoveAt(list, FirstEq(list, t, heap))

----------------------------------------------------------------------------
(* Task and _create_task *)

TaskId(tt, p, ts) == <<tt, p, ts>>

NewTask(tt, p) ==
    [task_id |-> TaskId(tt, p, now), task_type |-> tt, policy_name |-> p,
     status |-> PENDING, created_at |-> now, started_at |-> NoneTime,
     completed_at |-> NoneTime, error_message |-> NoneStr,
     retry_count |-> 0, max_retries |-> DefaultMaxRetries]

NewFrame == [pc |-> "none", ret |-> NoResult, func |-> "none", run |-> 0]

\* get_task_status: first Task of task_queue + task_history with that id
Lookup(id) ==
    LET all == task_queue \o task_history
        hits == {i \in DOMAIN all : tasks[all[i]].task_id = id}
    IN IF hits = {} THEN 0
       ELSE all[CHOOSE i \in hits : \A j \in hits : i <= j]

get_task_status(id) == Lookup(id)

----------------------------------------------------------------------------
(* _run_with_retry, one atomic block per stretch between suspension points *)

\* `while task.retry_count <= task.max_retries`
LoopTest(tk) == tk.retry_count <= tk.max_retries

\* a linear backoff in place of the exponential one
BackoffLinear(retry_count) == BackoffBase * retry_count

\* the duration passed to asyncio.sleep after the retry_count-th failure
Backoff(retry_count) == Pow(BackoffBase, retry_count)

\* line 342: `if task.retry_count <= task.max_retries`
RetryAllowed(tk) == tk.retry_count <= tk.max_retries

\* the completion time left unset
SucceededNoStamp(tk) == [tk EXCEPT !.status = SUCCESS]

\* lines 330-331: the task after a successful attempt
Succeeded(tk) == [tk EXCEPT !.status = SUCCESS, !.completed_at = now]

\* the generic message of line 354 in place of the last error
FailureResultGeneric(e) == [success |-> FALSE, error |-> "Max retries exceeded"]

\* line 352: the result returned once the retries are exhausted
FailureResult(e) == [success |-> FALSE, error |-> e]

\* Top of the loop, reached from the function entry and after each backoff:
\* either func is invoked (the frame suspends in `await func(...)`), or the
\* loop is left and line 354 returns.
EnterLoop(t, heap, fr, tr) ==
    IF LoopTest(heap[t])
    THEN /\ frames' = [fr EXCEPT ![t].pc = "call"]
         /\ trace' = [tr EXCEPT ![t] = Append(@, CALL)]
    ELSE /\ frames' = [fr EXCEPT ![t].pc = "done", ![t].ret = MaxRetriesExceeded]
         /\ trace' = tr

\* the `except Exception as e` handler (lines 338-352), entered with the heap
\* and history as the try block left them
HandleException(t, e, heap, hist) ==
    LET tk1 == [heap[t] EXCEPT !.retry_count = @ + 1, !.error_message = e]
    IN IF RetryAllowed(tk1)
       THEN \* lines 343-345: mark the task and back off
            /\ tasks' = [heap EXCEPT ![t] = [tk1 EXCEPT !.status = RETRYING]]
            /\ task_history' = hist
            /\ task_queue' = task_queue
            /\ frames' = [frames EXCEPT ![t].pc = "sleep"]
            /\ trace' = [trace EXCEPT ![t] = Append(@, Backoff(tk1.retry_count))]
       ELSE \* lines 347-352: give up
            LET tk2 == [tk1 EXCEPT !.status = FAILED, !.completed_at = now]
                heap2 == [heap EXCEPT ![t] = tk2]
            IN /\ tasks' = heap2
               /\ task_history' = Append(hist, t)
               /\ trace' = trace
               /\ IF CanRemove(task_queue, t, heap2)
                  THEN /\ task_queue' = ListRemove(task_queue, t, heap2)
                       /\ frames' = [frames EXCEPT ![t].pc = "done",
                                        ![t].ret = FailureResult(e)]
                  ELSE \* list.remove raises ValueError inside the handler
                       /\ task_queue' = task_queue
                       /\ frames' = [frames EXCEPT ![t].pc = "raised"]

\* lines 322-328: entry of _run_with_retry(task, func) up to the first
\* `await func(...)`; heap, fr and tr are the heap, the frames and the traces
\* at the call, r the workflow run that calls (0: a direct call)
BeginRun(t, func, r, heap, fr, tr) ==
    LET heap1 == [heap EXCEPT ![t].status = RUNNING, ![t].started_at = now]
        fr1 == [fr EXCEPT ![t].func = func, ![t].run = r]
    IN /\ tasks' = heap1
       /\ EnterLoop(t, heap1, fr1, tr)

\* lines 330-336: func returned `result`
OnReturn(t, result) ==
    LET heap1 == [tasks EXCEPT ![t] = Succeeded(tasks[t])]
        hist1 == Append(task_history, t)
    IN IF CanRemove(task_queue, t, heap1)
       THEN /\ tasks' = heap1
            /\ task_history' = hist1
            /\ task_queue' = ListRemove(task_queue, t, heap1)
            /\ frames' = [frames EXCEPT ![t].pc = "done", ![t].ret = result]
            /\ trace' = trace
       ELSE \* ValueError from list.remove, raised inside the try block
            HandleException(t, ValueErrorMsg, heap1, hist1)

\* lines 338-352: func raised Exception(e)
OnRaise(t, e) == HandleException(t, e, tasks, task_history)

----------------------------------------------------------------------------
(* ComparisonAgent: text handling.  A str is a sequence of one-character    *)
(* strings; None is NoneText.                                              *)

NoneText == <<"<None>">>
Whitespace == {" ", "\t", "\n", "\r"}

\* str.lower() on one character
LowerChar(c) ==
    CASE c = "A" -> "a" [] c = "B" -> "b" [] c = "C" -> "c" [] c = "D" -> "d"
      [] c = "P" -> "p" [] c = "X" -> "x" [] OTHER -> c

\* the case of every letter flipped
SwapCase(text) ==
    [i \in DOMAIN text |->
        IF LowerChar(text[i]) # text[i] THEN LowerChar(text[i])
        ELSE IF text[i] = "a" THEN "A" ELSE IF text[i] = "b" THEN "B" ELSE text[i]]

Lower(text) == [i \in DOMAIN text |-> LowerChar(text[i])]

\* str.split(): the maximal runs of non-whitespace characters
RECURSIVE SplitWords(_, _, _)
SplitWords(text, i, word) ==
    IF i > Len(text)
    THEN IF word = <<>> THEN <<>> ELSE <<word>>
    ELSE IF text[i] \in Whitespace
         THEN IF word = <<>> THEN SplitWords(text, i + 1, <<>>)
              ELSE <<word>> \o SplitWords(text, i + 1, <<>>)
         ELSE SplitWords(text, i + 1, Append(word, text[i]))

\* sep.join(parts)
RECURSIVE Join(_, _)
Join(parts, sep) ==
    IF parts = <<>> THEN <<>>
    ELSE IF Len(parts) = 1 THEN parts[1]
    ELSE parts[1] \o sep \o Join(Tail(parts), sep)

\* text.replace('\r\n', '\n').replace('\r', '\n')
RECURSIVE ReplaceCRLF(_)
ReplaceCRLF(text) ==
    IF text = <<>> THEN <<>>
    ELSE IF Len(text) >= 2 /\ text[1] = "\r" /\ text[2] = "\n"
         THEN <<"\n">> \o ReplaceCRLF(SubSeq(text, 3, Len(text)))
         ELSE <<text[1]>> \o ReplaceCRLF(Tail(text))

ReplaceCR(text) == [i \in DOMAIN text |-> IF text[i] = "\r" THEN "\n" ELSE text[i]]

\* str.strip()
RECURSIVE LStrip(_)
LStrip(text) ==
    IF text # <<>> /\ text[1] \in Whitespace THEN LStrip(Tail(text)) ELSE text
RECURSIVE RStrip(_)
RStrip(text) ==
    IF text # <<>> /\ text[Len(text)] \in Whitespace
    THEN RStrip(SubSeq(text, 1, Len(text) - 1)) ELSE text
Strip(text) == RStrip(LStrip(text))

\* the letter case kept
NormalizeKeepCase(text) ==
    Strip(ReplaceCR(ReplaceCRLF(Join(SplitWords(text, 1, <<>>), <<" ">>))))

\* the runs of whitespace kept as they are, line ends included
NormalizeKeepLines(text) == Strip(ReplaceCR(ReplaceCRLF(Lower(text))))

\* _normalize_text; defined on str only (None has no .lower())
NormalizeText(text) ==
    Strip(ReplaceCR(ReplaceCRLF(Join(SplitWords(Lower(text), 1, <<>>), <<" ">>))))

\* text.split('\n')
RECURSIVE SplitLines(_, _, _)
SplitLines(text, i, line) ==
    IF i > Len(text) THEN <<line>>
    ELSE IF text[i] = "\n" THEN <<line>> \o SplitLines(text, i + 1, <<>>)
    ELSE SplitLines(text, i + 1, Append(line, text[i]))

RECURSIVE FilterNonEmpty(_)
FilterNonEmpty(ls) ==
    IF ls = <<>> THEN <<>>
    ELSE IF ls[1] = <<>> THEN FilterNonEmpty(Tail(ls))
    ELSE <<ls[1]>> \o FilterNonEmpty(Tail(ls))

\* [p.strip() for p in text.split('\n') if p.strip()]
Paragraphs(text) ==
    LET ls == SplitLines(text, 1, <<>>)
    IN FilterNonEmpty([i \in DOMAIN ls |-> Strip(ls[i])])

----------------------------------------------------------------------------
(* difflib.SequenceMatcher(None, a, b) on two paragraph lists (no junk; the *)
(* autojunk heuristic only applies to lists of 200 or more elements).      *)
(* Indices are Python's: 0-based, ranges half-open.                        *)

Max(S) == CHOOSE x \in S : \A y \in S : y <= x

RECURSIVE MatchLen(_, _, _, _, _, _)
MatchLen(a, b, i, j, ahi, bhi) ==
    IF i < ahi /\ j < bhi /\ a[i + 1] = b[j + 1]
    THEN 1 + MatchLen(a, b, i + 1, j + 1, ahi, bhi)
    ELSE 0

\* find_longest_match: the longest block a[i:i+k] == b[j:j+k] within the
\* window, the one starting earliest in a, and of those earliest in b
FindLongestMatch(a, b, alo, ahi, blo, bhi) ==
    LET cands == (alo..(ahi - 1)) \X (blo..(bhi - 1))
        len(c) == MatchLen(a, b, c[1], c[2], ahi, bhi)
        best == IF cands = {} THEN 0 ELSE Max({len(c) : c \in cands})
    IN IF best = 0 THEN <<alo, blo, 0>>
       ELSE LET top == {c \in cands : len(c) = best}
                c == CHOOSE x \in top :
                        \A y \in top : x[1] < y[1] \/ (x[1] = y[1] /\ x[2] <= y[2])
            IN <<c[1], c[2], best>>

RECURSIVE MatchBlocks(_, _, _, _, _, _)
MatchBlocks(a, b, alo, ahi, blo, bhi) ==
    LET m == FindLongestMatch(a, b, alo, ahi, blo, bhi)
        i == m[1]
        j == m[2]
        k == m[3]
    IN IF k = 0 THEN <<>>
       ELSE (IF alo < i /\ blo < j THEN MatchBlocks(a, b, alo, i, blo, j) ELSE <<>>)
            \o <<m>>
            \o (IF i + k < ahi /\ j + k < bhi
                THEN MatchBlocks(a, b, i + k, ahi, j + k, bhi) ELSE <<>>)

\* adjacent blocks are merged
RECURSIVE Collapse(_, _)
Collapse(blocks, cur) ==
    IF blocks = <<>> THEN IF cur[3] > 0 THEN <<cur>> ELSE <<>>
    ELSE LET m == blocks[1]
         IN IF cur[1] + cur[3] = m[1] /\ cur[2] + cur[3] = m[2]
            THEN Collapse(Tail(blocks), <<cur[1], cur[2], cur[3] + m[3]>>)
            ELSE (IF cur[3] > 0 THEN <<cur>> ELSE <<>>) \o Collapse(Tail(blocks), m)

\* the terminating block left out
GetMatchingBlocksOpen(a, b) ==
    Collapse(MatchBlocks(a, b, 0, Len(a), 0, Len(b)), <<0, 0, 0>>)

\* get_matching_blocks, with the terminating (len(a), len(b), 0)
GetMatchingBlocks(a, b) ==
    Collapse(MatchBlocks(a, b, 0, Len(a), 0, Len(b)), <<0, 0, 0>>)
        \o << <<Len(a), Len(b), 0>> >>

\* get_opcodes: <<tag, i1, i2, j1, j2>>
RECURSIVE OpcodesFrom(_, _, _)
OpcodesFrom(blocks, i, j) ==
    IF blocks = <<>> THEN <<>>
    ELSE LET ai == blocks[1][1]
             bj == blocks[1][2]
             size == blocks[1][3]
             tag == IF i < ai /\ j < bj THEN "replace"
                    ELSE IF i < ai THEN "delete"
                    ELSE IF j < bj THEN "insert" ELSE ""
         IN (IF tag # "" THEN << <<tag, i, ai, j, bj>> >> ELSE <<>>)
            \o (IF size > 0 THEN << <<"equal", ai, ai + size, bj, bj + size>> >> ELSE <<>>)
            \o OpcodesFrom(Tail(blocks), ai + size, bj + size)

GetOpcodes(a, b) == OpcodesFrom(GetMatchingBlocks(a, b), 0, 0)

----------------------------------------------------------------------------
(* ComparisonAgent: change classification and aggregation *)

CRITICAL == "critical"
IMPORTANT == "important"
MINOR == "minor"

CriticalKeywords ==
    {<<"p", "r", "o", "h", "i", "b", "i", "t", "e", "d">>,
     <<"f", "o", "r", "b", "i", "d", "d", "e", "n">>,
     <<"i", "l", "l", "e", "g", "a", "l">>,
     <<"v", "i", "o", "l", "a", "t", "i", "o", "n">>,
     <<"m", "u", "s", "t">>,
     <<"r", "e", "q", "u", "i", "r", "e", "d">>,
     <<"m", "a", "n", "d", "a", "t", "o", "r", "y">>,
     <<"s", "h", "a", "l", "l">>,
     <<"d", "e", "a", "d", "l", "i", "n", "e">>,
     <<"d", "u", "e", " ", "d", "a", "t", "e">>,
     <<"e", "f", "f", "e", "c", "t", "i", "v", "e", " ", "d", "a", "t", "e">>}

ImportantKeywords ==
    {<<"s", "h", "o", "u", "l", "d">>,
     <<"r", "e", "c", "o", "m", "m", "e", "n", "d", "e", "d">>,
     <<"c", "o", "n", "s", "i", "d", "e", "r">>,
     <<"f", "r", "e", "q", "u", "e", "n", "c", "y">>,
     <<"p", "e", "r", "i", "o", "d">>,
     <<"s", "c", "h", "e", "d", "u", "l", "e">>,
     <<"p", "r", "o", "c", "e", "d", "u", "r", "e">>,
     <<"p", "r", "o", "c", "e", "s", "s">>,
     <<"r", "e", "q", "u", "i", "r", "e", "m", "e", "n", "t">>}

AdditionCriticalWords ==
    {<<"p", "r", "o", "h", "i", "b", "i", "t", "e", "d">>,
     <<"i", "l", "l", "e", "g", "a", "l">>,
     <<"d", "e", "a", "d", "l", "i", "n", "e">>}

\* `keyword in text`
Contains(text, kw) ==
    \E i \in 1..(Len(text) - Len(kw) + 1) : SubSeq(text, i, i + Len(kw) - 1) = kw

\* the important keywords looked for first
AssessChangeImpactImportantFirst(old_text, new_text) ==
    LET text_combined == Lower(old_text \o <<" ">> \o new_text)
    IN IF \E kw \in ImportantKeywords : Contains(text_combined, kw) THEN IMPORTANT
       ELSE IF \E kw \in CriticalKeywords : Contains(text_combined, kw) THEN CRITICAL
       ELSE MINOR

\* _assess_change_impact
AssessChangeImpact(old_text, new_text) ==
    LET text_combined == Lower(old_text \o <<" ">> \o new_text)
    IN IF \E kw \in CriticalKeywords : Contains(text_combined, kw) THEN CRITICAL
       ELSE IF \E kw \in ImportantKeywords : Contains(text_combined, kw) THEN IMPORTANT
       ELSE MINOR

\* _assess_addition_impact
AssessAdditionImpact(new_text) ==
    IF \E w \in AdditionCriticalWords : Contains(Lower(new_text), w)
    THEN CRITICAL ELSE IMPORTANT

\* _assess_removal_impact
AssessRemovalImpact(removed_text) == IMPORTANT

\* ' '.join(paragraphs[i1:i2])
JoinRange(paragraphs, i1, i2) == Join(SubSeq(paragraphs, i1 + 1, i2), <<" ">>)

\* the ChangeDetail one opcode gives (none for 'equal')
ChangeOf(op, old_paragraphs, new_paragraphs) ==
    LET old_para == JoinRange(old_paragraphs, op[2], op[3])
        new_para == JoinRange(new_paragraphs, op[4], op[5])
    IN CASE op[1] = "replace" ->
              [change_type |-> "modified",
               impact_level |-> AssessChangeImpact(old_para, new_para),
               original_text |-> old_para, new_text |-> new_para]
         [] op[1] = "insert" ->
              [change_type |-> "added",
               impact_level |-> AssessAdditionImpact(new_para),
               original_text |-> NoneText, new_text |-> new_para]
         [] op[1] = "delete" ->
              [change_type |-> "removed",
               impact_level |-> AssessRemovalImpact(old_para),
               original_text |-> old_para, new_text |-> NoneText]

RECURSIVE ChangesOf(_, _, _)
ChangesOf(ops, old_paragraphs, new_paragraphs) ==
    IF ops = <<>> THEN <<>>
    ELSE (IF ops[1][1] = "equal" THEN <<>>
          ELSE <<ChangeOf(ops[1], old_paragraphs, new_paragraphs)>>)
         \o ChangesOf(Tail(ops), old_paragraphs, new_paragraphs)

\* _detect_changes_text_based
DetectChangesTextBased(old_text, new_text) ==
    LET old_paragraphs == Paragraphs(old_text)
        new_paragraphs == Paragraphs(new_text)
    IN ChangesOf(GetOpcodes(old_paragraphs, new_paragraphs),
                 old_paragraphs, new_paragraphs)

\* every change counted at every level
CountAll(changes, level) == Len(changes)

CountImpact(changes, level) ==
    Cardinality({i \in DOMAIN changes : changes[i].impact_level = level})

\* critical changes reported as important ones
OverallImpactNeverCritical(critical_count, important_count) ==
    IF critical_count > 0 \/ important_count > 0 THEN IMPORTANT ELSE MINOR

\* lines 223-229: the overall impact of the counted changes
OverallImpact(critical_count, important_count) ==
    IF critical_count > 0 THEN CRITICAL
    ELSE IF important_count > 0 THEN IMPORTANT
    ELSE MINOR

\* _compare_policy_texts (the ComparisonResult, without summary and timestamp)
ComparePolicyTexts(policy_name, old_text, new_text) ==
    LET old_normalized == NormalizeText(old_text)
        new_normalized == NormalizeText(new_text)
    IN IF old_normalized = new_normalized
       THEN [policy_name |-> policy_name, has_changes |-> FALSE, total_changes |-> 0,
             critical_changes |-> 0, important_changes |-> 0, minor_changes |-> 0,
             overall_impact |-> MINOR, changes |-> <<>>]
       ELSE LET changes == DetectChangesTextBased(old_normalized, new_normalized)
                critical_count == CountImpact(changes, CRITICAL)
                important_count == CountImpact(changes, IMPORTANT)
                minor_count == CountImpact(changes, MINOR)
            IN [policy_name |-> policy_name, has_changes |-> Len(changes) > 0,
                total_changes |-> Len(changes),
                critical_changes |-> critical_count,
                important_changes |-> important_count,
                minor_changes |-> minor_count,
                overall_impact |-> OverallImpact(critical_count, important_count),
                changes |-> changes]

----------------------------------------------------------------------------
(* ComparisonAgent.analyze_changes *)

\* a snapshot as analyze_changes expects it: a dict with a "content" entry
Snapshot(content) == [content |-> content]
\* a PolicySnapshot dataclass instance, as PolicyMonitorAgent produces it
PolicySnapshot(content) == [dataclass |-> "PolicySnapshot", content |-> content]
EmptyDict == <<>>

IsDict(x) == ~ Has(x, "dataclass")
Falsy(x) == x = EmptyDict

InsufficientData ==
    [success |-> TRUE, has_changes |-> FALSE,
     message |-> "Insufficient data for comparison"]
BaselineStored ==
    [success |-> TRUE, has_changes |-> FALSE,
     message |-> "Baseline stored for future comparison"]
NoGetError == "'PolicySnapshot' object has no attribute 'get'"
NoLowerError == "'NoneType' object has no attribute 'lower'"

\* the dict analyze_changes returns for a ComparisonResult
ResultDict(cr) ==
    [success |-> TRUE, has_changes |-> cr.has_changes, policy_name |-> cr.policy_name,
     total_changes |-> cr.total_changes, critical_changes |-> cr.critical_changes,
     important_changes |-> cr.important_changes, minor_changes |-> cr.minor_changes,
     overall_impact |-> cr.overall_impact]

\* analyze_changes: <<returned dict, comparison_history afterwards>>.  Every
\* exception raised below the `try` is caught and returned as a failure dict.
AnalyzeChanges(policy_name, monitor_result, history) ==
    LET snapshots == Get(monitor_result, "snapshots", <<>>)
    IN IF Len(snapshots) < 2 THEN <<InsufficientData, history>>
       ELSE LET latest_snapshot == snapshots[Len(snapshots)]
                previous_snapshot == snapshots[Len(snapshots) - 1]
            IN IF Falsy(previous_snapshot) THEN <<BaselineStored, history>>
               ELSE IF ~ IsDict(previous_snapshot) \/ ~ IsDict(latest_snapshot)
               THEN <<[success |-> FALSE, error |-> NoGetError], history>>
               ELSE LET old_content == Get(previous_snapshot, "content", <<>>)
                        new_content == Get(latest_snapshot, "content", <<>>)
                    IN IF old_content = NoneText \/ new_content = NoneText
                       THEN <<[success |-> FALSE, error |-> NoLowerError], history>>
                       ELSE LET cr == ComparePolicyTexts(policy_name, old_content,
                                                         new_content)
                            IN <<ResultDict(cr), Append(history, cr)>>

----------------------------------------------------------------------------
(* Step functions: what awaiting func can produce *)

\* values a step function handed directly to _run_with_retry returns
TestValues == {[value |-> "v1"], [value |-> "v2"]}

\* kinds of object in the agents registry: "none" (not registered),
\* "ComparisonAgent" (the repository's comparison agent), "agent" (any other
\* collaborator: returns a well-formed result dict or raises).
\* An orchestrator is used bare (every step mocked), wired with the
\* repository's comparison agent, or wired with arbitrary collaborators.
Deployments ==
    {[n \in StepNames |-> IF n = "comparison" THEN k ELSE "agent"] :
        k \in {"ComparisonAgent", "agent"}}

TextOld == <<"a">>
TextSame == <<" ", "A">>
TextNew == <<"a", " ", "b">>

SnapshotLists ==
    {<<Snapshot(TextOld)>>,
     <<Snapshot(TextOld), Snapshot(TextSame)>>,
     <<Snapshot(TextOld), Snapshot(TextNew)>>,
     <<Snapshot(NoneText), Snapshot(TextNew)>>,
     <<EmptyDict, Snapshot(TextNew)>>,
     <<PolicySnapshot(TextOld), PolicySnapshot(TextNew)>>}

Failures == {[success |-> FALSE, error |-> "failure"]}

MonitorResults ==
    {[success |-> TRUE, snapshots |-> sn] : sn \in SnapshotLists} \cup Failures
ComparisonResults ==
    {[success |-> TRUE, has_changes |-> TRUE, changes_count |-> 1],
     [success |-> TRUE, has_changes |-> FALSE]} \cup Failures
UpdateResults == {[success |-> TRUE]} \cup Failures
NotificationResults == {[success |-> TRUE, recipients_count |-> 1]} \cup Failures
MemoryResults == {[success |-> TRUE]} \cup Failures

\* the arguments the run passed: the monitor result of the calling run
MonitorResultOf(t) == runs[frames[t].run].monitor_result
PolicyOf(t) == tasks[t].policy_name

\* _execute_<step>_step
ExecuteMonitorStep(t) ==
    IF agents["monitor"] = "none" THEN {[success |-> TRUE, mock |-> TRUE]}
    ELSE MonitorResults
ExecuteComparisonStep(t) ==
    IF agents["comparison"] = "none"
    THEN {[success |-> TRUE, has_changes |-> FALSE, mock |-> TRUE]}
    ELSE IF agents["comparison"] = "ComparisonAgent"
    THEN {AnalyzeChanges(PolicyOf(t), MonitorResultOf(t), comparison_history)[1]}
    ELSE ComparisonResults
ExecuteUpdateStep(t) ==
    IF agents["update"] = "none" THEN {[success |-> TRUE, mock |-> TRUE]}
    ELSE UpdateResults
ExecuteNotificationStep(t) ==
    IF agents["notification"] = "none"
    THEN {[success |-> TRUE, recipients_count |-> 0, mock |-> TRUE]}
    ELSE NotificationResults
ExecuteMemoryStep(t) ==
    IF agents["memory"] = "none" THEN {[success |-> TRUE, mock |-> TRUE]}
    ELSE MemoryResults

StepReturnValues(t) ==
    CASE frames[t].func = "test" -> TestValues
      [] frames[t].func = "monitor" -> ExecuteMonitorStep(t)
      [] frames[t].func = "comparison" -> ExecuteComparisonStep(t)
      [] frames[t].func = "update" -> ExecuteUpdateStep(t)
      [] frames[t].func = "notification" -> ExecuteNotificationStep(t)
      [] frames[t].func = "memory" -> ExecuteMemoryStep(t)
      [] OTHER -> {}

\* an arbitrary collaborator may raise; the mock paths and ComparisonAgent
\* (which catches everything) do not
StepMayRaise(t) ==
    \/ frames[t].func = "test"
    \/ frames[t].func \in StepNames /\ agents[frames[t].func] = "agent"

\* the effect of the step on ComparisonAgent.comparison_history
HistoryAfterStep(t) ==
    IF frames[t].func = "comparison" /\ agents["comparison"] = "ComparisonAgent"
    THEN AnalyzeChanges(PolicyOf(t), MonitorResultOf(t), comparison_history)[2]
    ELSE comparison_history

----------------------------------------------------------------------------
(* Actions *)

\* datetime.now() moves on
Tick ==
    /\ now + 1 \in ClockReadings
    /\ now' = now + 1
    /\ UNCHANGED <<callerVars, taskVars, agentVars, sessionVars, runs>>

\* a direct call of _create_task(task_type, policy_name)
CreateTask(tt, p) ==
    /\ tasks' = Append(tasks, NewTask(tt, p))
    /\ task_queue' = Append(task_queue, Len(tasks) + 1)
    /\ frames' = Append(frames, NewFrame)
    /\ trace' = Append(trace, <<>>)
    /\ observed' = Append(observed, NoObservation)
    /\ UNCHANGED <<callerVars, now, task_history, agentVars, sessionVars, runs>>

\* the caller sets Task.max_retries before running the task
SetMaxRetries(t, m) ==
    /\ frames[t].pc = "none"
    /\ tasks[t].max_retries # m
    /\ tasks' = [tasks EXCEPT ![t].max_retries = m]
    /\ UNCHANGED <<callerVars, now, task_queue, task_history, frames, trace, observed,
                   agentVars, sessionVars, runs>>

\* a direct call of _run_with_retry(task, func) on a task that was created
\* and not run before; runs up to the first `await func(...)`
Run(t) ==
    /\ frames[t].pc = "none"
    /\ BeginRun(t, "test", 0, tasks, frames, trace)
    /\ UNCHANGED <<callerVars, now, task_queue, task_history, observed, agentVars, sessionVars, runs>>

\* `await func(...)` completes with a value
StepReturns(t, v) ==
    /\ frames[t].pc = "call"
    /\ v \in StepReturnValues(t)
    /\ OnReturn(t, v)
    /\ observed' = [observed EXCEPT ![t].val = v]
    /\ comparison_history' = HistoryAfterStep(t)
    /\ UNCHANGED <<callerVars, now, agents, sessionVars, runs>>

\* `await func(...)` raises Exception(e)
StepRaises(t, e) ==
    /\ frames[t].pc = "call"
    /\ StepMayRaise(t)
    /\ OnRaise(t, e)
    /\ observed' = [observed EXCEPT ![t].exc = e]
    /\ UNCHANGED <<callerVars, now, agentVars, sessionVars, runs>>

\* `await asyncio.sleep(...)` completes: back to the top of the loop
Wake(t) ==
    /\ frames[t].pc = "sleep"
    /\ EnterLoop(t, tasks, frames, trace)
    /\ UNCHANGED <<callerVars, now, tasks, task_queue, task_history, observed, agentVars,
                   sessionVars, runs>>

----------------------------------------------------------------------------
(* SessionManager *)

SessionId(policy_name, ts) == <<"session", policy_name, ts>>

\* the dict create_session stores; oid is the identity of the dict object
NewSession(policy_name, oid) ==
    [policy_name |-> policy_name, created_at |-> now, status |-> "running",
     tasks |-> <<>>, oid |-> oid]

\* active_sessions[session_id] = {...}
DictSet(d, k, v) == [x \in DOMAIN d \cup {k} |-> IF x = k THEN v ELSE d[x]]
\* active_sessions.pop(session_id)
DictDel(d, k) == [x \in DOMAIN d \ {k} |-> d[x]]

NoMetadata == <<>>

\* the status left as create_session set it
EndedStatusKept(session, status, metadata) ==
    session @@ [completed_at |-> now]

\* the session dict as end_session leaves it
Ended(session, status, metadata) ==
    LET s1 == [session EXCEPT !.status = status] @@ [completed_at |-> now]
    IN IF metadata # NoMetadata THEN s1 @@ [metadata |-> metadata] ELSE s1

\* end_session: the two collections afterwards
ActiveAfterEnd(session_id) ==
    IF session_id \in DOMAIN active_sessions
    THEN DictDel(active_sessions, session_id) ELSE active_sessions
\* an entry recorded also for an id that is not active
CompletedAfterEndAlways(session_id, status, metadata) ==
    Append(completed_sessions,
           Ended(IF session_id \in DOMAIN active_sessions
                 THEN active_sessions[session_id]
                 ELSE [status |-> "running"], status, metadata))

CompletedAfterEnd(session_id, status, metadata) ==
    IF session_id \in DOMAIN active_sessions
    THEN Append(completed_sessions,
                Ended(active_sessions[session_id], status, metadata))
    ELSE completed_sessions

EndSession(session_id, status, metadata) ==
    /\ active_sessions' = ActiveAfterEnd(session_id)
    /\ completed_sessions' = CompletedAfterEnd(session_id, status, metadata)

\* get_session
get_session(session_id) ==
    IF session_id \in DOMAIN active_sessions THEN active_sessions[session_id]
    ELSE EmptyDict

----------------------------------------------------------------------------
(* run_compliance_check *)

NewRun(policy_name, session_id, t) ==
    [pc |-> "monitor", policy_name |-> policy_name, session_id |-> session_id,
     task |-> t, monitor_result |-> NoResult, comparison_result |-> NoResult,
     update_result |-> NoResult, notification_result |-> NoResult,
     ret |-> NoResult]

Returned(r) == runs[r].pc = "returned"

\* str(e) of the exceptions the body raises itself
MonitorFailed(error) == <<"Monitor failed: ", error>>
KeyErrorSuccess == <<"'success'">>

\* task_N = self._create_task(step, policy_name), followed by the entry of
\* _run_with_retry(task_N, self._execute_<step>_step, ...) up to its first await
StartStep(r, step, policy_name) ==
    LET t == Len(tasks) + 1
    IN /\ task_queue' = Append(task_queue, t)
       /\ observed' = Append(observed, NoObservation)
       /\ task_history' = task_history
       /\ BeginRun(t, step, r, Append(tasks, NewTask(step, policy_name)),
                   Append(frames, NewFrame), Append(trace, <<>>))

\* the next step of the body after the step `pc` returned `res`
NextStepAfter(pc) ==
    CASE pc = "monitor" -> "comparison"
      [] pc = "comparison" -> "update"
      [] pc = "update" -> "notification"
      [] pc = "notification" -> "memory"

\* the `except Exception as e` branch (lines 185-192)
Fail(r, error) ==
    /\ EndSession(runs[r].session_id, "failed", [error |-> error])
    /\ runs' = [runs EXCEPT ![r].pc = "returned",
                   ![r].ret = [status |-> "failed",
                               session_id |-> runs[r].session_id,
                               error |-> error]]
    /\ UNCHANGED taskVars

\* lines 127-130
NoChanges(r, res) ==
    /\ EndSession(runs[r].session_id, "no_changes", NoMetadata)
    /\ runs' = [runs EXCEPT ![r].pc = "returned", ![r].comparison_result = res,
                   ![r].ret = [status |-> "no_changes",
                               session_id |-> runs[r].session_id]]
    /\ UNCHANGED taskVars

\* lines 163-183
Complete(r, res) ==
    /\ EndSession(runs[r].session_id, "success",
                  [changes_detected |-> Get(runs[r].comparison_result, "changes_count", 0),
                   notifications_sent |-> Get(runs[r].notification_result,
                                              "recipients_count", 0)])
    /\ runs' = [runs EXCEPT ![r].pc = "returned",
                   ![r].ret = [status |-> "success",
                               session_id |-> runs[r].session_id,
                               monitor |-> runs[r].monitor_result,
                               comparison |-> runs[r].comparison_result,
                               update |-> runs[r].update_result,
                               notification |-> runs[r].notification_result,
                               memory |-> res]]
    /\ UNCHANGED taskVars

\* the result of the awaited step is stored and the next step is started
Proceed(r, res) ==
    LET pc == runs[r].pc
        next == NextStepAfter(pc)
    IN /\ runs' = [runs EXCEPT ![r].pc = next, ![r].task = Len(tasks) + 1,
                      ![r].monitor_result = IF pc = "monitor" THEN res ELSE @,
                      ![r].comparison_result = IF pc = "comparison" THEN res ELSE @,
                      ![r].update_result = IF pc = "update" THEN res ELSE @,
                      ![r].notification_result = IF pc = "notification" THEN res ELSE @]
       /\ StartStep(r, next, runs[r].policy_name)
       /\ UNCHANGED sessionVars

\* the run going on whatever the monitor result says
AfterMonitorLenient(r, res) ==
    IF ~ Has(res, "success") THEN Fail(r, KeyErrorSuccess)
    ELSE Proceed(r, res)

\* lines 114-115: the monitor result decides whether the run goes on
AfterMonitor(r, res) ==
    IF ~ Has(res, "success") THEN Fail(r, KeyErrorSuccess)
    ELSE IF ~ res["success"] THEN Fail(r, MonitorFailed(Get(res, "error", NoneStr)))
    ELSE Proceed(r, res)

\* the early exit taken on `success` instead of `has_changes`
AfterComparisonOnSuccess(r, res) ==
    IF ~ Get(res, "success", FALSE) THEN NoChanges(r, res)
    ELSE Proceed(r, res)

\* lines 127-130: `if not comparison_result.get("has_changes")`
AfterComparison(r, res) ==
    IF ~ Get(res, "has_changes", FALSE) THEN NoChanges(r, res)
    ELSE Proceed(r, res)

\* a failed update aborting the run
AfterUpdateStrict(r, res) ==
    IF ~ Get(res, "success", FALSE) THEN Fail(r, <<"Update failed">>)
    ELSE Proceed(r, res)

\* lines 141-142: a failed update is logged and the run goes on
AfterUpdate(r, res) ==
    IF ~ Has(res, "success") THEN Fail(r, KeyErrorSuccess)
    ELSE Proceed(r, res)

\* the register_agent calls that wire an orchestrator before it is used
RegisterAgents(registry) ==
    /\ runs = <<>>
    /\ agents # registry
    /\ \A n \in StepNames : agents[n] = "none"
    /\ agents' = registry
    /\ UNCHANGED <<callerVars, now, taskVars, sessionVars, comparison_history, runs>>

\* run_compliance_check(policy_name) is called: lines 102-112, up to the
\* first await of the monitor step
StartRun(policy_name) ==
    LET r == Len(runs) + 1
        session_id == SessionId(policy_name, now)
    IN /\ active_sessions' = DictSet(active_sessions, session_id,
                                     NewSession(policy_name, r))
       /\ completed_sessions' = completed_sessions
       /\ runs' = Append(runs, NewRun(policy_name, session_id, Len(tasks) + 1))
       /\ StartStep(r, "monitor", policy_name)
       /\ UNCHANGED <<now, agentVars>>

\* _run_with_retry has returned to run_compliance_check, which runs on to its
\* next await or to its return
Continue(r) ==
    LET pc == runs[r].pc
        f == frames[runs[r].task]
        res == f.ret
    IN /\ pc \in StepNames
       /\ f.pc \in {"done", "raised"}
       /\ IF f.pc = "raised" THEN Fail(r, <<ValueErrorMsg>>)
          ELSE CASE pc = "monitor" -> AfterMonitor(r, res)
                 [] pc = "comparison" -> AfterComparison(r, res)
                 [] pc = "update" -> AfterUpdate(r, res)
                 [] pc = "notification" -> Proceed(r, res)
                 [] pc = "memory" -> Complete(r, res)
       /\ UNCHANGED <<now, agentVars>>

\* exceptions raised by the collaborators so far
RECURSIVE SumRetries(_)
SumRetries(heap) ==
    IF heap = <<>> THEN 0 ELSE heap[1].retry_count + SumRetries(Tail(heap))

----------------------------------------------------------------------------
(* run_batch_compliance_checks *)

OtherPolicy == "Other Policy"
\* the policy_names lists a batch is called with
BatchInputs ==
    {<<>>, <<TestPolicy>>, <<TestPolicy, OtherPolicy>>,
     <<OtherPolicy, TestPolicy>>, <<TestPolicy, TestPolicy>>}

\* the batch is run bare, or with collaborators registered for the
\* comparison and update steps and the other steps left to their mocks
BatchDeployments ==
    {[n \in StepNames |-> IF n \in {"comparison", "update"} THEN "agent" ELSE "none"]}

NewBatch(policy_names) ==
    [pc |-> "check", policy_names |-> policy_names, results |-> <<>>,
     ret |-> NoResult]

\* the entry pushed to the front of the list
CollectedFirst(b, policy_name, result) ==
    [b EXCEPT !.pc = "sleep",
              !.results = <<[policy_name |-> policy_name, result |-> result]>> \o @]

\* lines 212-219: results.append({...}), then `await asyncio.sleep(1)`
Collected(b, policy_name, result) ==
    [b EXCEPT !.pc = "sleep",
              !.results = Append(@, [policy_name |-> policy_name,
                                     result |-> result])]

\* lines 220-225: the dict the batch returns
BatchReturned(b) ==
    [b EXCEPT !.pc = "returned",
              !.ret = [status |-> "batch_complete",
                       total_policies |-> Len(b.policy_names),
                       results |-> b.results,
                       timestamp |-> now]]

\* run_batch_compliance_checks(policy_names) is called: up to the first
\* await inside the first check, or to the return for an empty list
StartBatch(policy_names) ==
    /\ batch.pc = "none"
    /\ runs = <<>>
    /\ IF policy_names = <<>>
       THEN /\ batch' = BatchReturned(NewBatch(policy_names))
            /\ UNCHANGED <<now, taskVars, sessionVars, agentVars, runs>>
       ELSE /\ batch' = NewBatch(policy_names)
            /\ StartRun(policy_names[1])
    /\ UNCHANGED <<session_log, text_call, mailVars>>

\* the check the batch awaits runs on; when it returns, its result is
\* appended and the batch sleeps
BatchContinue(r) ==
    /\ batch.pc = "check"
    /\ r = Len(runs)
    /\ Continue(r)
    /\ batch' = IF runs'[r].pc = "returned"
                THEN Collected(batch, runs[r].policy_name, runs'[r].ret)
                ELSE batch
    /\ UNCHANGED <<session_log, text_call, mailVars>>

\* `await asyncio.sleep(1)` completes: the next policy's check is started,
\* or the batch returns
BatchWake ==
    /\ batch.pc = "sleep"
    /\ LET i == Len(batch.results) + 1
       IN IF i <= Len(batch.policy_names)
          THEN /\ batch' = [batch EXCEPT !.pc = "check"]
               /\ StartRun(batch.policy_names[i])
          ELSE /\ batch' = BatchReturned(batch)
               /\ UNCHANGED <<now, taskVars, sessionVars, agentVars, runs>>
    /\ UNCHANGED <<session_log, text_call, mailVars>>

----------------------------------------------------------------------------
(* SessionManager used directly *)

MaxCalls == 4          \* calls made on the SessionManager

\* the ids a caller passes: those create_session can return for TestPolicy
SessionIds == {SessionId(TestPolicy, ts) : ts \in ClockReadings}
EndStatuses == {"success", "failed"}
Metadatas == {NoMetadata, [error |-> "e1"]}

\* the number of create_session calls made so far
Created == Cardinality({i \in DOMAIN session_log : session_log[i].op = "create"})

\* create_session(policy_name); the call returns session_id
CreateSession(policy_name) ==
    LET session_id == SessionId(policy_name, now)
    IN /\ Len(session_log) < MaxCalls
       /\ active_sessions' = DictSet(active_sessions, session_id,
                                     NewSession(policy_name, Created + 1))
       /\ session_log' = Append(session_log, [op |-> "create", id |-> session_id])
       /\ UNCHANGED <<now, taskVars, agentVars, completed_sessions, runs, batch, text_call, mailVars>>

\* end_session(session_id, status, metadata)
EndSessionCall(session_id, status, metadata) ==
    /\ Len(session_log) < MaxCalls
    /\ EndSession(session_id, status, metadata)
    /\ session_log' = Append(session_log,
                             [op |-> "end", id |-> session_id, status |-> status,
                              metadata |-> metadata])
    /\ UNCHANGED <<now, taskVars, agentVars, runs, batch, text_call, mailVars>>

\* get_session(session_id); the call returns the session or None
GetSessionCall(session_id) ==
    /\ Len(session_log) < MaxCalls
    /\ session_log' = Append(session_log,
                             [op |-> "get", id |-> session_id,
                              result |-> get_session(session_id)])
    /\ UNCHANGED <<now, taskVars, agentVars, sessionVars, runs, batch, text_call, mailVars>>

----------------------------------------------------------------------------
(* ComparisonAgent's text functions called directly *)

MaxPieces == 2         \* pieces an input text is put together from

\* what input texts are made of: letters in both cases, the kinds of
\* whitespace, a critical and an important keyword
Pieces ==
    {<<"a">>, <<"A">>, <<"B">>, <<" ">>, <<"\n">>, <<"\r", "\n">>,
     <<"m", "u", "s", "t">>, <<"s", "h", "o", "u", "l", "d">>}

RECURSIVE TextsOf(_)
TextsOf(n) ==
    IF n = 0 THEN {<<>>}
    ELSE TextsOf(n - 1) \cup {t \o p : t \in TextsOf(n - 1), p \in Pieces}
Texts == TextsOf(MaxPieces)

MaxParagraphs == 3     \* lines a multi-line input text has

\* the lines multi-line input texts are made of: plain text, a blank line,
\* lines holding a keyword
Lines ==
    {<<"a">>, <<" ">>, <<"p", "r", "o", "h", "i", "b", "i", "t", "e", "d">>,
     <<"m", "u", "s", "t">>}

RECURSIVE LineListsOf(_)
LineListsOf(n) ==
    IF n = 0 THEN {<<>>}
    ELSE LineListsOf(n - 1) \cup {Append(ls, l) : ls \in LineListsOf(n - 1), l \in Lines}
\* '\n'.join(lines)
MultiLineTexts == {Join(ls, <<"\n">>) : ls \in LineListsOf(MaxParagraphs)}

\* _normalize_text(text) is called and returns
NormalizeCall(text) ==
    /\ text_call' = [fn |-> "_normalize_text", text |-> text,
                     result |-> NormalizeText(text)]
    /\ UNCHANGED <<now, taskVars, agentVars, sessionVars, runs, batch, session_log, mailVars>>

\* the words the two texts of a modified span are made of: plain text, an
\* important keyword, a critical keyword, a critical keyword capitalised
SpanWords ==
    {<<"a">>, <<"s", "h", "o", "u", "l", "d">>, <<"m", "u", "s", "t">>,
     <<"P", "r", "o", "h", "i", "b", "i", "t", "e", "d">>}

RECURSIVE SpanWordListsOf(_)
SpanWordListsOf(n) ==
    IF n = 0 THEN {<<>>}
    ELSE SpanWordListsOf(n - 1)
            \cup {Append(ws, w) : ws \in SpanWordListsOf(n - 1), w \in SpanWords}
SpanTexts == {Join(ws, <<" ">>) : ws \in SpanWordListsOf(MaxPieces)}

\* _assess_change_impact(old_text, new_text) is called and returns
AssessCall(old_text, new_text) ==
    /\ text_call' = [fn |-> "_assess_change_impact", old_text |-> old_text,
                     new_text |-> new_text,
                     result |-> AssessChangeImpact(old_text, new_text)]
    /\ UNCHANGED <<now, taskVars, agentVars, sessionVars, runs, batch, session_log, mailVars>>

\* _detect_changes_text_based(old_text, new_text) is called and returns the
\* list of changes; the paragraph lists and the opcodes it went through are
\* kept with the call
DetectCall(old_text, new_text) ==
    /\ text_call' = [fn |-> "_detect_changes_text_based", old_text |-> old_text,
                     new_text |-> new_text,
                     old_paragraphs |-> Paragraphs(old_text),
                     new_paragraphs |-> Paragraphs(new_text),
                     opcodes |-> GetOpcodes(Paragraphs(old_text), Paragraphs(new_text)),
                     result |-> DetectChangesTextBased(old_text, new_text)]
    /\ UNCHANGED <<now, taskVars, agentVars, sessionVars, runs, batch, session_log, mailVars>>

\* _compare_policy_texts(policy_name, old_text, new_text) is called and
\* returns the ComparisonResult
CompareCall(policy_name, old_text, new_text) ==
    /\ text_call' = [fn |-> "_compare_policy_texts", old_text |-> old_text,
                     new_text |-> new_text,
                     result |-> ComparePolicyTexts(policy_name, old_text, new_text)]
    /\ UNCHANGED <<now, taskVars, agentVars, sessionVars, runs, batch, session_log, mailVars>>

----------------------------------------------------------------------------
(* EmailSender.send_email and NotificationAgent.send_notification *)

MaxRetryCount == 3     \* largest retry_count a caller of send_email passes
MaxNotifications == 2  \* send_notification calls made on the agent
DefaultRetryCount == 3 \* send_email's retry_count default

NoSend == [fn |-> "none"]
\* no EmailSender, no NotificationAgent constructed yet
NoSender == [constructed |-> FALSE, authenticated |-> FALSE, call |-> NoSend]
NoNotifier == [constructed |-> FALSE]
\* a call that returned None
NoneDict == [returned_none |-> TRUE]

\* what one execute() of the send request does: it returns, raises a
\* GoogleAPIError, or raises another exception
SendOutcomes == {"ok", "GoogleAPIError", "Exception"}
OutcomeLists == [1..MaxRetryCount -> SendOutcomes]

\* the dicts send_email returns
EmailSent ==
    [status |-> "sent", message |-> <<"Email sent successfully">>,
     message_id |-> "id", timestamp |-> now]
SendFailed(e) ==
    [status |-> "error", message |-> <<"Failed to send email: ", e>>,
     message_id |-> NoneStr]
NotAuthenticated ==
    [status |-> "error", message |-> <<"Not authenticated with Gmail API">>,
     message_id |-> NoneStr]
\* MockEmailSender.send_email
MockSent ==
    [status |-> "sent", message |-> <<"[MOCK] Email sent successfully">>,
     message_id |-> "id", timestamp |-> now]

\* lines 274-307: `for attempt in range(retry_count)` from `attempt` on, with
\* the sleeps made so far; outcomes[k] is what the k-th execute() does.
\* A loop that ends without a return leaves the try block, and the function
\* ends without a return statement.
RECURSIVE SendLoop(_, _, _, _)
SendLoop(retry_count, outcomes, attempt, sleeps) ==
    IF attempt >= retry_count
    THEN [ret |-> NoneDict, attempts |-> attempt, sleeps |-> sleeps]
    ELSE IF outcomes[attempt + 1] = "ok"
    THEN [ret |-> EmailSent, attempts |-> attempt + 1, sleeps |-> sleeps]
    ELSE IF outcomes[attempt + 1] = "GoogleAPIError" /\ attempt < retry_count - 1
    THEN SendLoop(retry_count, outcomes, attempt + 1,
                  Append(sleeps, Pow(2, attempt)))
    ELSE [ret |-> SendFailed(outcomes[attempt + 1]), attempts |-> attempt + 1,
          sleeps |-> sleeps]

\* send_email: what it returns, the execute() calls and the sleeps it makes;
\* create_ok: _create_message does not raise
SendEmail(authenticated, retry_count, create_ok, outcomes) ==
    IF ~ authenticated
    THEN [ret |-> NotAuthenticated, attempts |-> 0, sleeps |-> <<>>]
    ELSE IF ~ create_ok
    THEN [ret |-> SendFailed("Exception"), attempts |-> 0, sleeps |-> <<>>]
    ELSE SendLoop(retry_count, outcomes, 0, <<>>)

\* EmailSender(...): _authenticate() succeeds or not
NewEmailSender(authenticated) ==
    /\ sender = NoSender
    /\ sender' = [constructed |-> TRUE, authenticated |-> authenticated,
                  call |-> NoSend]
    /\ UNCHANGED <<now, taskVars, agentVars, sessionVars, runs, batch,
                   session_log, text_call, notifier>>

\* send_email(..., retry_count=retry_count) is called on the EmailSender and
\* returns
SendEmailCall(retry_count, create_ok, outcomes) ==
    /\ sender.constructed
    /\ sender.call = NoSend
    /\ notifier = NoNotifier
    /\ LET done == SendEmail(sender.authenticated, retry_count, create_ok, outcomes)
       IN sender' = [sender EXCEPT !.call =
                        [fn |-> "send_email", retry_count |-> retry_count,
                         create_ok |-> create_ok, outcomes |-> outcomes,
                         ret |-> done.ret, attempts |-> done.attempts,
                         sleeps |-> done.sleeps]]
    /\ UNCHANGED <<now, taskVars, agentVars, sessionVars, runs, batch,
                   session_log, text_call, notifier>>

\* the kinds of email_service a NotificationAgent is given
EmailServices == {"none", "MockEmailSender", "EmailSender"}

\* NotificationAgent(email_service=...)
NewNotificationAgent(email_service) ==
    /\ notifier = NoNotifier
    /\ sender.call = NoSend
    /\ email_service = "EmailSender" => sender.constructed
    /\ notifier' = [constructed |-> TRUE, email_service |-> email_service,
                    notification_history |-> <<>>, call |-> NoSend]
    /\ UNCHANGED <<now, taskVars, agentVars, sessionVars, runs, batch,
                   session_log, text_call, sender>>

\* NotificationEmail as generate_notification_email appends it
NewEmail == [status |-> "pending", send_timestamp |-> NoneTime]

\* self.email_service.send_email(...), called without retry_count
ServiceSendEmail(create_ok, outcomes) ==
    IF notifier.email_service = "MockEmailSender" THEN MockSent
    ELSE SendEmail(sender.authenticated, DefaultRetryCount, create_ok, outcomes).ret

\* the dicts send_notification returns
DryRun == [status |-> "dry_run", message |-> <<"Email generated (dry run mode)">>]
NotificationSent(result) ==
    [status |-> "sent", message |-> <<"Notification email sent successfully">>,
     message_id |-> Get(result, "message_id", NoneStr), timestamp |-> now]
NotConfigured == [status |-> "error", message |-> <<"Email service not configured">>]
NotificationFailed(e) ==
    [status |-> "error", message |-> <<"Failed to send notification: ", e>>]

\* send_notification(change, recipient_email, dry_run=dry_run) is called and
\* returns; the send_email call it makes is part of it
SendNotification(dry_run, create_ok, outcomes) ==
    /\ notifier.constructed
    /\ Len(notifier.notification_history) < MaxNotifications
    /\ LET result == ServiceSendEmail(create_ok, outcomes)
           sends == ~ dry_run /\ notifier.email_service # "none"
           email == IF sends /\ result # NoneDict
                    THEN [status |-> Get(result, "status", "sent"),
                          send_timestamp |-> now]
                    ELSE NewEmail
           ret == IF dry_run THEN DryRun
                  ELSE IF notifier.email_service = "none" THEN NotConfigured
                  ELSE IF result = NoneDict THEN NotificationFailed("AttributeError")
                  ELSE NotificationSent(result)
       IN notifier' = [notifier EXCEPT
                          !.notification_history = Append(@, email),
                          !.call = [fn |-> "send_notification", dry_run |-> dry_run,
                                    result |-> IF sends THEN result ELSE NoResult,
                                    ret |-> ret]]
    /\ UNCHANGED <<now, taskVars, agentVars, sessionVars, runs, batch,
                   session_log, text_call, sender>>

CountStatus(history, status) ==
    Cardinality({i \in DOMAIN history : history[i].status = status})

\* get_notification_stats
GetNotificationStats(history) ==
    [total_notifications |-> Len(history),
     sent |-> CountStatus(history, "sent"),
     failed |-> CountStatus(history, "failed"),
     pending |-> CountStatus(history, "pending")]

----------------------------------------------------------------------------
(* Specifications *)

\* run_batch_compliance_checks has not been called
NoBatch == [pc |-> "none"]
\* no text function has been called
NoCall == [fn |-> "none"]

Init ==
    /\ now = 0
    /\ tasks = <<>>
    /\ task_queue = <<>>
    /\ task_history = <<>>
    /\ frames = <<>>
    /\ trace = <<>>
    /\ observed = <<>>
    /\ agents = [n \in StepNames |-> "none"]
    /\ active_sessions = <<>>
    /\ completed_sessions = <<>>
    /\ comparison_history = <<>>
    /\ runs = <<>>
    /\ batch = NoBatch
    /\ session_log = <<>>
    /\ text_call = NoCall
    /\ sender = NoSender
    /\ notifier = NoNotifier

\* the runner driven directly: any interleaving of _create_task and
\* _run_with_retry calls, each task run once
NextRunner ==
    \/ Tick
    \/ \E p \in {TestPolicy} : Len(tasks) < MaxTasks /\ CreateTask("test", p)
    \/ \E t \in DOMAIN tasks : Run(t)
    \/ \E t \in DOMAIN tasks : \E v \in StepReturnValues(t) : StepReturns(t, v)
    \/ \E t \in DOMAIN tasks, e \in Errors : StepRaises(t, e)
    \/ \E t \in DOMAIN tasks : Wake(t)

SpecRunner == Init /\ [][NextRunner]_vars

\* one task whose max_retries the caller chooses before running it
NextRetry ==
    \/ Tick
    \/ \E p \in {TestPolicy} : tasks = <<>> /\ CreateTask("test", p)
    \/ \E t \in DOMAIN tasks, m \in 0..MaxRetryLimit : SetMaxRetries(t, m)
    \/ \E t \in DOMAIN tasks : Run(t)
    \/ \E t \in DOMAIN tasks : \E v \in StepReturnValues(t) : StepReturns(t, v)
    \/ \E t \in DOMAIN tasks, e \in Errors : StepRaises(t, e)
    \/ \E t \in DOMAIN tasks : Wake(t)

SpecRetry == Init /\ [][NextRetry]_vars

\* one run_compliance_check call on an orchestrator wired beforehand
Next ==
    \/ Tick
    \/ \E registry \in Deployments : RegisterAgents(registry)
    \/ \E p \in {TestPolicy} : runs = <<>> /\ StartRun(p) /\ UNCHANGED callerVars
    \/ \E t \in DOMAIN tasks : \E v \in StepReturnValues(t) : StepReturns(t, v)
    \/ \E t \in DOMAIN tasks, e \in RunErrors :
          SumRetries(tasks) < MaxFaults /\ StepRaises(t, e)
    \/ \E t \in DOMAIN tasks : Wake(t)
    \/ \E r \in DOMAIN runs : Continue(r) /\ UNCHANGED callerVars

Spec == Init /\ [][Next]_vars

\* one run_batch_compliance_checks call on an orchestrator wired beforehand
NextBatch ==
    \/ Tick
    \/ \E registry \in BatchDeployments : RegisterAgents(registry)
    \/ \E policy_names \in BatchInputs : StartBatch(policy_names)
    \/ \E t \in DOMAIN tasks : \E v \in StepReturnValues(t) : StepReturns(t, v)
    \/ \E t \in DOMAIN tasks, e \in RunErrors :
          SumRetries(tasks) < MaxFaults /\ StepRaises(t, e)
    \/ \E t \in DOMAIN tasks : Wake(t)
    \/ \E r \in DOMAIN runs : BatchContinue(r)
    \/ BatchWake

SpecBatch == Init /\ [][NextBatch]_vars

\* a SessionManager driven directly by any sequence of calls
NextSessions ==
    \/ Tick
    \/ \E p \in {TestPolicy} : CreateSession(p)
    \/ \E id \in SessionIds, status \in EndStatuses, metadata \in Metadatas :
          EndSessionCall(id, status, metadata)
    \/ \E id \in SessionIds : GetSessionCall(id)

SpecSessions == Init /\ [][NextSessions]_vars

\* the collaborators of the overlapping calls: the monitor step is awaited on
\* a registered collaborator, the other steps run on their mocks
OverlapDeployments ==
    {[n \in StepNames |-> IF n = "monitor" THEN "agent" ELSE "none"]}

\* the call keeps the event loop: it runs on without suspending, either after
\* an await that completed or through a mock step, which awaits nothing
Holding(r) ==
    /\ ~ Returned(r)
    /\ LET f == frames[runs[r].task]
       IN \/ f.pc \in {"done", "raised"}
          \/ f.pc = "call" /\ agents[f.func] = "none"
\* no call other than r keeps the event loop (r = 0: no call at all)
Free(r) == \A q \in DOMAIN runs : q # r => ~ Holding(q)

\* two run_compliance_check calls on one orchestrator, for the same policy or
\* for two policies, the second one made while the first one is suspended
NextOverlap ==
    \/ Tick
    \/ \E registry \in OverlapDeployments : RegisterAgents(registry)
    \/ \E p \in {TestPolicy, OtherPolicy} :
          /\ Len(runs) < 2
          /\ agents \in OverlapDeployments
          /\ \A r \in DOMAIN runs : ~ Returned(r)
          /\ Free(0)
          /\ StartRun(p) /\ UNCHANGED callerVars
    \/ \E t \in DOMAIN tasks : \E v \in StepReturnValues(t) :
          Free(frames[t].run) /\ StepReturns(t, v)
    \/ \E t \in DOMAIN tasks, e \in RunErrors :
          /\ SumRetries(tasks) < MaxFaults
          /\ Free(frames[t].run)
          /\ StepRaises(t, e)
    \/ \E t \in DOMAIN tasks : Free(frames[t].run) /\ Wake(t)
    \/ \E r \in DOMAIN runs : Free(r) /\ Continue(r) /\ UNCHANGED callerVars

SpecOverlap == Init /\ [][NextOverlap]_vars

\* a text function applied to any input texts, and _normalize_text applied
\* again to what it returned
NextText ==
    \/ text_call = NoCall /\ \E text \in Texts : NormalizeCall(text)
    \/ text_call.fn = "_normalize_text" /\ NormalizeCall(text_call.result)
    \/ text_call = NoCall /\ \E old_text, new_text \in Texts :
          CompareCall(TestPolicy, old_text, new_text)
    \/ text_call = NoCall /\ \E old_text, new_text \in MultiLineTexts :
          CompareCall(TestPolicy, old_text, new_text)
    \/ text_call = NoCall /\ \E old_text, new_text \in MultiLineTexts :
          DetectCall(old_text, new_text)
    \/ text_call = NoCall /\ \E old_text, new_text \in SpanTexts :
          AssessCall(old_text, new_text)

SpecText == Init /\ [][NextText]_vars

\* an EmailSender used directly for one send_email call, or a
\* NotificationAgent used for some send_notification calls
NextMail ==
    \/ Tick
    \/ \E authenticated \in BOOLEAN : NewEmailSender(authenticated)
    \/ \E retry_count \in 0..MaxRetryCount, create_ok \in BOOLEAN,
          outcomes \in OutcomeLists : SendEmailCall(retry_count, create_ok, outcomes)
    \/ \E email_service \in EmailServices : NewNotificationAgent(email_service)
    \/ \E dry_run, create_ok \in BOOLEAN, outcomes \in OutcomeLists :
          SendNotification(dry_run, create_ok, outcomes)

SpecMail == Init /\ [][NextMail]_vars

----------------------------------------------------------------------------
(* Properties of the retry runner *)

Count(list, x) == Cardinality({i \in DOMAIN list : list[i] = x})
Calls(t) == Cardinality({i \in DOMAIN trace[t] : trace[t][i] = CALL})
RECURSIVE SumSeq(_)
SumSeq(q) == IF q = <<>> THEN 0 ELSE q[1] + SumSeq(Tail(q))
TotalBackoff(t) == SumSeq(trace[t])
IsPrefix(p, q) == Len(p) <= Len(q) /\ SubSeq(q, 1, Len(p)) = p

\* attempt, wait 2^1, attempt, wait 2^2, ..., wait 2^m, attempt
ExpectedTrace(m) ==
    [i \in 1..(2 * m + 1) |-> IF i % 2 = 1 THEN CALL ELSE Pow(2, i \div 2)]

\* the run of task t is over and no invocation of func returned
AlwaysRaised(t) ==
    /\ frames[t].pc \in {"done", "raised"}
    /\ observed[t].val = NoResult

\* C1: a task with max_retries = m whose step function raises on every
\* invocation is attempted exactly m+1 times, with waits 2^1 .. 2^m between
\* the attempts only, and ends Failed; for m = 3: 4 attempts, 14 time units.
\* Along the way the log of attempts and waits is a prefix of that schedule.
C1_RetryBound ==
    \A t \in DOMAIN tasks :
        LET m == tasks[t].max_retries
        IN /\ IsPrefix(trace[t], ExpectedTrace(m))
           /\ AlwaysRaised(t) =>
                /\ frames[t].pc = "done"
                /\ tasks[t].status = FAILED
                /\ Calls(t) = m + 1
                /\ trace[t] = ExpectedTrace(m)
                /\ m = 3 => Calls(t) = 4 /\ TotalBackoff(t) = 14

C1_Witness ==
    \E t \in DOMAIN tasks :
        /\ AlwaysRaised(t)
        /\ tasks[t].max_retries = 3
        /\ tasks[t].status = FAILED
        /\ trace[t] = <<CALL, 2, CALL, 4, CALL, 8, CALL>>

\* C2: _run_with_retry never lets an exception out: it returns the value
\* func returned, or, with retry_count > max_retries, the task Failed,
\* completed_at set and the task moved to the history, the failure result
\* carrying the message of the last exception func raised.
C2_NeverRaises ==
    \A t \in DOMAIN tasks :
        /\ frames[t].pc # "raised"
        /\ frames[t].pc = "done" =>
            \/ /\ observed[t].val # NoResult
               /\ frames[t].ret = observed[t].val
            \/ /\ observed[t].val = NoResult
               /\ tasks[t].retry_count > tasks[t].max_retries
               /\ tasks[t].status = FAILED
               /\ tasks[t].completed_at # NoneTime
               /\ Count(task_history, t) = 1
               /\ Count(task_queue, t) = 0
               /\ frames[t].ret = [success |-> FALSE, error |-> observed[t].exc]

C2_Witness ==
    \E t \in DOMAIN tasks :
        /\ frames[t].pc = "done"
        /\ tasks[t].status = FAILED
        /\ frames[t].ret = [success |-> FALSE, error |-> "e2"]
        /\ \E u \in DOMAIN tasks :
              /\ frames[u].pc = "done"
              /\ tasks[u].retry_count > 0
              /\ frames[u].ret \in TestValues

StatusEdges ==
    {<<PENDING, RUNNING>>, <<RUNNING, SUCCESS>>, <<RUNNING, RETRYING>>,
     <<RETRYING, RUNNING>>, <<RUNNING, FAILED>>}

\* C3: a Task's status changes only along Pending -> Running,
\* Running -> Success, Running -> Retrying, Retrying -> Running and
\* Running -> Failed, and func is only invoked while the task is Running.
C3_StatusMachine ==
    [][\A t \in DOMAIN tasks :
          /\ tasks'[t].status # tasks[t].status =>
                <<tasks[t].status, tasks'[t].status>> \in StatusEdges
          /\ frames'[t].pc = "call" => tasks'[t].status = RUNNING]_vars

C5_SuccessAfterRetries ==
    \A t \in DOMAIN tasks :
        observed[t].val # NoResult =>
            LET k == Calls(t) - 1
            IN /\ frames[t].pc = "done"
               /\ frames[t].ret = observed[t].val
               /\ tasks[t].status = SUCCESS
               /\ k <= tasks[t].max_retries
               /\ tasks[t].retry_count = k
               /\ tasks[t].completed_at # NoneTime
               /\ Count(task_history, t) = 1
               /\ Count(task_queue, t) = 0
               /\ trace[t] = SubSeq(ExpectedTrace(tasks[t].max_retries), 1, 2 * k + 1)

C5_Witness ==
    \E t \in DOMAIN tasks :
        /\ observed[t].val = [value |-> "v2"]
        /\ observed[t].exc = "e1"
        /\ tasks[t].max_retries = 2
        /\ tasks[t].retry_count = 2
        /\ tasks[t].status = SUCCESS
        /\ frames[t].ret = [value |-> "v2"]

----------------------------------------------------------------------------
(* Properties of run_compliance_check *)

\* the tasks created by run r, in creation order
TasksOf(r) == SelectSeq([i \in DOMAIN tasks |-> i], LAMBDA t : frames[t].run = r)
TypesOf(r) == [i \in DOMAIN TasksOf(r) |-> tasks[TasksOf(r)[i]].task_type]
\* the entries of completed_sessions that are the session dict of run r
CompletedOf(r) == {i \in DOMAIN completed_sessions : completed_sessions[i].oid = r}

IsFailure(res) == Has(res, "success") /\ res["success"] = FALSE
Terminal(t) ==
    /\ frames[t].pc = "done"
    /\ tasks[t].status \in {SUCCESS, FAILED}
    /\ Count(task_history, t) = 1
    /\ Count(task_queue, t) = 0

\* C6: a run_compliance_check call creates one session at its start and
\* has ended it exactly once when it returns: until the return the session
\* is active with status "running" and not completed; after it the session
\* is not in active_sessions, is exactly once in completed_sessions, and its
\* status there is the status of the returned result.
C6_SessionEndedOnce ==
    \A r \in DOMAIN runs :
        LET sid == runs[r].session_id
        IN IF Returned(r)
           THEN /\ sid \notin DOMAIN active_sessions
                /\ Cardinality(CompletedOf(r)) = 1
                /\ \A i \in CompletedOf(r) :
                      /\ completed_sessions[i].status = runs[r].ret.status
                      /\ Has(completed_sessions[i], "completed_at")
                /\ runs[r].ret.session_id = sid
           ELSE /\ sid \in DOMAIN active_sessions
                /\ active_sessions[sid].oid = r
                /\ active_sessions[sid].status = "running"
                /\ CompletedOf(r) = {}

C6_Witness ==
    \E r \in DOMAIN runs :
        /\ Returned(r)
        /\ runs[r].ret.status = "failed"
        /\ active_sessions = <<>>
        /\ Len(completed_sessions) = 1
        /\ completed_sessions[1].status = "failed"
        /\ completed_sessions[1].oid = r

\* C7: when the result of the compare step is a failure
\* {success: false, error}, run_compliance_check ends the session "failed"
\* and returns status "failed".
C7_CompareFailureFails ==
    \A r \in DOMAIN runs :
        (Returned(r) /\ IsFailure(runs[r].comparison_result)) =>
            /\ runs[r].ret.status = "failed"
            /\ \A i \in CompletedOf(r) : completed_sessions[i].status = "failed"

\* the compare step of task t ran ComparisonAgent.analyze_changes and
\* _normalize_text raised inside it
PipelineRaised(t) ==
    /\ frames[t].func = "comparison"
    /\ agents["comparison"] = "ComparisonAgent"
    /\ observed[t].val = [success |-> FALSE, error |-> NoLowerError]

\* C8: an exception raised inside the comparison pipeline makes the runner
\* retry the compare step, and the compare task ends Failed after
\* max_retries + 1 attempts.
C8_PipelineErrorRetried ==
    \A t \in DOMAIN tasks :
        (PipelineRaised(t) /\ frames[t].pc = "done") =>
            /\ tasks[t].status = FAILED
            /\ Calls(t) = tasks[t].max_retries + 1

\* C9: when the compare step's result has has_changes false, the run ends
\* the session "no_changes", returns "no_changes", and no update,
\* notification or memory task is created for the run.
C9_NoChangesStops ==
    \A r \in DOMAIN runs :
        \A i \in DOMAIN TasksOf(r) :
            LET t == TasksOf(r)[i]
                res == frames[t].ret
            IN (/\ tasks[t].task_type = "comparison"
                /\ frames[t].pc = "done"
                /\ Has(res, "has_changes")
                /\ res["has_changes"] = FALSE) =>
                  /\ TypesOf(r) = <<"monitor", "comparison">>
                  /\ runs[r].pc \in {"comparison", "returned"}
                  /\ Returned(r) =>
                        /\ runs[r].ret = [status |-> "no_changes",
                                          session_id |-> runs[r].session_id]
                        /\ \A j \in CompletedOf(r) :
                              completed_sessions[j].status = "no_changes"

C9_Witness ==
    \E r \in DOMAIN runs :
        /\ Returned(r)
        /\ agents["comparison"] = "ComparisonAgent"
        /\ Has(runs[r].comparison_result, "has_changes")
        /\ runs[r].comparison_result["has_changes"] = FALSE
        /\ Get(runs[r].comparison_result, "success", FALSE) = TRUE
        /\ runs[r].ret.status = "no_changes"
        /\ Len(tasks) = 2

AllSteps == <<"monitor", "comparison", "update", "notification", "memory">>

\* C10: when the compare step's result has has_changes true, the update,
\* notification and memory steps run in that order, each as a task of its
\* own started after the previous one has finished; whatever their results
\* (a task Failed after its retries, or a {success: false} result) the run
\* returns "success" with the session "success", and the report carries the
\* result of each step.
C10_DownstreamSoftFail ==
    \A r \in DOMAIN runs :
        LET ts == TasksOf(r)
        IN /\ IsPrefix(TypesOf(r), AllSteps)
           /\ \A i \in DOMAIN ts : i < Len(ts) => Terminal(ts[i])
           /\ (Len(ts) >= 2 /\ frames[ts[2]].pc = "done"
                 /\ Get(frames[ts[2]].ret, "has_changes", FALSE) = TRUE
                 /\ Returned(r)) =>
                /\ TypesOf(r) = AllSteps
                /\ \A i \in DOMAIN ts : Terminal(ts[i]) /\ Calls(ts[i]) >= 1
                /\ runs[r].ret.status = "success"
                /\ runs[r].ret.comparison = frames[ts[2]].ret
                /\ runs[r].ret.update = frames[ts[3]].ret
                /\ runs[r].ret.notification = frames[ts[4]].ret
                /\ runs[r].ret.memory = frames[ts[5]].ret
                /\ \A j \in CompletedOf(r) : completed_sessions[j].status = "success"

C10_Witness ==
    \E r \in DOMAIN runs :
        /\ Returned(r)
        /\ runs[r].ret.status = "success"
        /\ Len(TasksOf(r)) = 5
        /\ tasks[TasksOf(r)[3]].status = FAILED
        /\ runs[r].ret.update = [success |-> FALSE, error |-> "e1"]
        /\ IsFailure(runs[r].ret.notification)
        /\ tasks[TasksOf(r)[5]].status = SUCCESS

----------------------------------------------------------------------------
(* Properties of the downstream steps and of the workflow's outcome *)

SinkSteps == {"update", "notification", "memory"}

\* C11: a downstream step (update, notification, memory) whose collaborator
\* returns {success: false} without raising is retried like one that
\* raises: when its task is finished after such a result, the step has been
\* invoked max_retries + 1 times and the task is Failed.
C11_SinkFailureRetried ==
    \A t \in DOMAIN tasks :
        (/\ tasks[t].task_type \in SinkSteps
         /\ frames[t].pc = "done"
         /\ IsFailure(observed[t].val)) =>
            /\ Calls(t) = tasks[t].max_retries + 1
            /\ tasks[t].status = FAILED

\* the monitor step of run r supplied fewer than two snapshots to
\* ComparisonAgent
FewerThanTwoSnapshots(r) ==
    /\ agents["comparison"] = "ComparisonAgent"
    /\ Has(runs[r].monitor_result, "snapshots")
    /\ Len(runs[r].monitor_result["snapshots"]) < 2

\* C12: when fewer than two snapshots are available, the run ends with the
\* outcome "baseline stored", comparison_history is unchanged, and no
\* comparison task is created or run.
C12_BaselineWithoutCompare ==
    \A r \in DOMAIN runs :
        (Returned(r) /\ FewerThanTwoSnapshots(r)) =>
            /\ comparison_history = <<>>
            /\ \A i \in DOMAIN TasksOf(r) : TypesOf(r)[i] # "comparison"
            /\ Get(runs[r].comparison_result, "message", NoneStr)
                  \in {NoneStr, BaselineStored["message"]}

\* the returned result tells that the step of task t failed: the run is
\* reported failed with an error, or the step's failure result is in the
\* report under the step's name
DescribesFailure(ret, t) ==
    \/ Get(ret, "status", NoneStr) = "failed" /\ Has(ret, "error")
    \/ Has(ret, tasks[t].task_type) /\ ret[tasks[t].task_type] = frames[t].ret

\* C13: run_compliance_check always returns a structured result with a
\* status and the session_id, and when a step of the run failed (its result
\* is a failure, returned by the collaborator or produced by the runner
\* after the retries) the returned result describes which step failed.
C13_StructuredResult ==
    \A r \in DOMAIN runs :
        Returned(r) =>
            /\ Has(runs[r].ret, "status")
            /\ Has(runs[r].ret, "session_id")
            /\ runs[r].ret["session_id"] = runs[r].session_id
            /\ \A i \in DOMAIN TasksOf(r) :
                  IsFailure(frames[TasksOf(r)[i]].ret) =>
                      DescribesFailure(runs[r].ret, TasksOf(r)[i])

----------------------------------------------------------------------------
(* Properties of run_batch_compliance_checks *)

\* the check of run r is over: returned, its session ended, all its tasks
\* finished and in task_history
CheckOver(r) ==
    /\ Returned(r)
    /\ \A id \in DOMAIN active_sessions : active_sessions[id].oid # r
    /\ Cardinality(CompletedOf(r)) = 1
    /\ \A i \in DOMAIN TasksOf(r) : Terminal(TasksOf(r)[i])

\* C14: the batch checks its policies one after another in input order:
\* the i-th check is for the i-th policy, a task or session of a later
\* check exists only when every earlier check is over (returned, session
\* ended, every task in task_history), and the returned results hold one
\* entry per input policy, in input order, with that check's result.
C14_BatchSequential ==
    batch.pc # "none" =>
        /\ Len(runs) <= Len(batch.policy_names)
        /\ \A r \in DOMAIN runs :
              /\ runs[r].policy_name = batch.policy_names[r]
              /\ r < Len(runs) => CheckOver(r)
              /\ \A q \in DOMAIN runs :
                    q < r => /\ \A i \in DOMAIN TasksOf(q), j \in DOMAIN TasksOf(r) :
                                   TasksOf(q)[i] < TasksOf(r)[j]
                             /\ \A i \in CompletedOf(q), j \in CompletedOf(r) : i < j
        /\ \A i \in DOMAIN batch.results :
              /\ i \in DOMAIN runs
              /\ CheckOver(i)
              /\ batch.results[i] = [policy_name |-> batch.policy_names[i],
                                     result |-> runs[i].ret]
        /\ batch.pc = "returned" =>
              /\ Len(runs) = Len(batch.policy_names)
              /\ Len(batch.results) = Len(batch.policy_names)
              /\ batch.ret["results"] = batch.results
              /\ batch.ret["total_policies"] = Len(batch.policy_names)
              /\ batch.ret["status"] = "batch_complete"

C14_Witness ==
    /\ batch.pc = "returned"
    /\ batch.policy_names = <<OtherPolicy, TestPolicy>>
    /\ Len(runs) = 2
    /\ \E i \in DOMAIN TasksOf(1) :
          /\ tasks[TasksOf(1)[i]].status = FAILED
          /\ tasks[TasksOf(1)[i]].retry_count = tasks[TasksOf(1)[i]].max_retries + 1
    /\ Len(TasksOf(2)) = 5
    /\ batch.ret["results"][2]["result"]["status"] = "success"

----------------------------------------------------------------------------
(* Properties of the SessionManager *)

LastCall == session_log'[Len(session_log')]
\* this step is a call of end_session
IsEndCall == Len(session_log') = Len(session_log) + 1 /\ LastCall.op = "end"

\* C15: end_session with an id that is not in active_sessions leaves
\* active_sessions and completed_sessions unchanged; with an active id it
\* removes the id and appends that session once, with the call's status and
\* metadata; no entry of completed_sessions is changed afterwards.  Hence a
\* second end_session of the same session records nothing.
C15_EndUnknownIsNoOp ==
    [][/\ IsPrefix(completed_sessions, completed_sessions')
       /\ IsEndCall =>
            IF LastCall.id \notin DOMAIN active_sessions
            THEN /\ active_sessions' = active_sessions
                 /\ completed_sessions' = completed_sessions
            ELSE /\ LastCall.id \notin DOMAIN active_sessions'
                 /\ Len(completed_sessions') = Len(completed_sessions) + 1
                 /\ LET done == completed_sessions'[Len(completed_sessions')]
                    IN /\ done.oid = active_sessions[LastCall.id].oid
                       /\ done.status = LastCall.status
                       /\ LastCall.metadata # NoMetadata =>
                             done.metadata = LastCall.metadata
                       /\ LastCall.metadata = NoMetadata => ~ Has(done, "metadata")]_vars

C15_Witness ==
    /\ Len(session_log) = 4
    /\ session_log[1].op = "end"
    /\ session_log[2].op = "create"
    /\ session_log[3] = [op |-> "end", id |-> session_log[2].id,
                         status |-> "success", metadata |-> NoMetadata]
    /\ session_log[4] = [op |-> "end", id |-> session_log[2].id,
                         status |-> "failed", metadata |-> [error |-> "e1"]]
    /\ active_sessions = <<>>
    /\ Len(completed_sessions) = 1
    /\ completed_sessions[1].status = "success"
    /\ ~ Has(completed_sessions[1], "metadata")

\* the ids of the sessions that end_session has moved to completed_sessions
EndedIds ==
    {SessionId(completed_sessions[i].policy_name, completed_sessions[i].created_at) :
        i \in DOMAIN completed_sessions}

\* C16: once end_session has moved the session of an id to
\* completed_sessions, that id is never again a key of active_sessions and
\* get_session of it returns nothing, whatever calls follow.
C16_EndedStaysEnded ==
    \A id \in EndedIds :
        /\ id \notin DOMAIN active_sessions
        /\ get_session(id) = EmptyDict

CreateCalls == SelectSeq(session_log, LAMBDA c : c.op = "create")

\* C17: every create_session call returns an id that no earlier
\* create_session call returned, so that each call adds a new "running"
\* entry and overwrites none: every session created is still held, active
\* or completed.
C17_FreshSessionId ==
    /\ \A i, j \in DOMAIN CreateCalls : i < j => CreateCalls[i].id # CreateCalls[j].id
    /\ Cardinality(DOMAIN active_sessions) + Len(completed_sessions) = Len(CreateCalls)
    /\ \A id \in DOMAIN active_sessions : active_sessions[id].status = "running"

----------------------------------------------------------------------------
(* Properties of the comparison pipeline *)

Normalized == text_call.fn = "_normalize_text"
Compared == text_call.fn = "_compare_policy_texts"

\* C18: _normalize_text is idempotent: normalizing what it returned gives
\* the same text again.
C18_NormalizeIdempotent ==
    Normalized => NormalizeText(text_call.result) = text_call.result

C18_Witness ==
    /\ Normalized
    /\ text_call.text = <<"b">>
    /\ text_call.result = <<"b">>

\* the words of a text with the letter case put aside
WordsOf(text) ==
    LET ws == SplitWords(text, 1, <<>>)
    IN [i \in DOMAIN ws |-> [j \in DOMAIN ws[i] |-> LowerChar(ws[i][j])]]
\* the texts differ at most in letter case and in amount or kind of whitespace
SameWords(x, y) == WordsOf(x) = WordsOf(y)

\* C19: for two texts that differ only in letter case and whitespace,
\* _compare_policy_texts returns has_changes False, total_changes 0, no
\* changes and overall_impact Minor; for any other two texts it returns
\* has_changes True.
C19_EqualIffNoChanges ==
    Compared =>
        LET r == text_call.result
        IN IF SameWords(text_call.old_text, text_call.new_text)
           THEN /\ r.has_changes = FALSE
                /\ r.total_changes = 0
                /\ r.changes = <<>>
                /\ r.overall_impact = MINOR
           ELSE r.has_changes = TRUE

C19_Witness ==
    /\ Compared
    /\ text_call.old_text = <<"A", " ">>
    /\ text_call.new_text = <<"\r", "\n", "a">>
    /\ text_call.result.has_changes = FALSE

\* C20: every ComparisonResult of _compare_policy_texts has total_changes
\* = critical_changes + important_changes + minor_changes = len(changes),
\* and has_changes = (len(changes) > 0).
C20_CountsConsistent ==
    Compared =>
        LET r == text_call.result
        IN /\ r.total_changes = r.critical_changes + r.important_changes + r.minor_changes
           /\ r.total_changes = Len(r.changes)
           /\ r.has_changes = (Len(r.changes) > 0)
           /\ \A i \in DOMAIN r.changes :
                 r.changes[i].impact_level \in {CRITICAL, IMPORTANT, MINOR}

C20_Witness ==
    /\ Compared
    /\ text_call.old_text = <<"a">>
    /\ text_call.new_text = <<"a", "m", "u", "s", "t">>
    /\ text_call.result.total_changes = 1
    /\ text_call.result.critical_changes = 1
    /\ text_call.result.has_changes = TRUE

\* C21: in every ComparisonResult overall_impact is Critical exactly when
\* critical_changes > 0, Important exactly when critical_changes = 0 and
\* important_changes > 0, and Minor otherwise, the zero-change result
\* included.
C21_OverallImpact ==
    Compared =>
        LET r == text_call.result
        IN /\ r.overall_impact \in {CRITICAL, IMPORTANT, MINOR}
           /\ r.overall_impact = CRITICAL <=> r.critical_changes > 0
           /\ r.overall_impact = IMPORTANT <=>
                 (r.critical_changes = 0 /\ r.important_changes > 0)
           /\ r.total_changes = 0 => r.overall_impact = MINOR

C21_Witness ==
    /\ Compared
    /\ text_call.old_text = <<"s", "h", "o", "u", "l", "d">>
    /\ text_call.new_text = <<"m", "u", "s", "t">>
    /\ text_call.result.overall_impact = CRITICAL
    /\ text_call.result.critical_changes = 1
    /\ text_call.result.important_changes = 0

----------------------------------------------------------------------------
(* The opcodes of _detect_changes_text_based *)

Detected == text_call.fn = "_detect_changes_text_based"

\* the opcodes whose range in the old (side 2) or new (side 4) paragraph list
\* holds index i, counted from 0
Covering(opcodes, side, i) ==
    {k \in 1..Len(opcodes) : opcodes[k][side] <= i /\ i < opcodes[k][side + 1]}

----------------------------------------------------------------------------
(* The impact of a modified span *)

Assessed == text_call.fn = "_assess_change_impact"

\* some keyword of the set occurs, whatever the case, in the old text and the
\* new text of a span put together with a space between them
Occurs(keywords, old_text, new_text) ==
    \E kw \in keywords : \E i \in 1..(Len(old_text) + 1 + Len(new_text)) :
        /\ i + Len(kw) - 1 <= Len(old_text) + 1 + Len(new_text)
        /\ \A k \in 1..Len(kw) :
              LowerChar((old_text \o <<" ">> \o new_text)[i + k - 1]) = kw[k]

ExpectedSpanImpact(old_text, new_text) ==
    IF Occurs(CriticalKeywords, old_text, new_text) THEN CRITICAL
    ELSE IF Occurs(ImportantKeywords, old_text, new_text) THEN IMPORTANT
    ELSE MINOR

\* the changes a call of the text functions returned
ChangesReturned ==
    IF Compared THEN text_call.result.changes
    ELSE IF Detected THEN text_call.result
    ELSE <<>>

\* C23: a modified span is Critical whenever a critical keyword occurs in its
\* old or new text, whatever the case and whether or not an important keyword
\* occurs too, Important when no critical but some important keyword occurs,
\* and Minor when neither occurs.
C23_CriticalBeforeImportant ==
    /\ Assessed =>
          text_call.result = ExpectedSpanImpact(text_call.old_text, text_call.new_text)
    /\ \A k \in 1..Len(ChangesReturned) :
          ChangesReturned[k].change_type = "modified" =>
              ChangesReturned[k].impact_level =
                  ExpectedSpanImpact(ChangesReturned[k].original_text,
                                     ChangesReturned[k].new_text)

\* an important keyword in the old text, a capitalised critical one in the new
C23_Witness ==
    /\ Assessed
    /\ text_call.old_text = <<"s", "h", "o", "u", "l", "d">>
    /\ text_call.new_text = <<"P", "r", "o", "h", "i", "b", "i", "t", "e", "d">>
    /\ text_call.result = CRITICAL

----------------------------------------------------------------------------
(* A paragraph added, a paragraph removed *)

ProhibitedLine == <<"p", "r", "o", "h", "i", "b", "i", "t", "e", "d">>

\* the lists of lines a text of the calls may be made of
LineLists == LineListsOf(MaxParagraphs)

\* ls with line l put in at position k
WithLineAt(ls, k, l) == SubSeq(ls, 1, k - 1) \o <<l>> \o SubSeq(ls, k, Len(ls))

\* new_text is old_text with the one line l more, a line old_text has not
OneLineMore(old_text, new_text, l) ==
    \E ls \in LineLists : \E k \in 1..(Len(ls) + 1) :
        /\ Len(ls) < MaxParagraphs
        /\ \A i \in 1..Len(ls) : ls[i] # l
        /\ old_text = Join(ls, <<"\n">>)
        /\ new_text = Join(WithLineAt(ls, k, l), <<"\n">>)

\* C24: when the new text is the old text plus one more paragraph (line)
\* that contains "prohibited" and that the old text does not have,
\* _compare_policy_texts reports exactly one change, of kind added and of
\* impact critical.
C24_AddedParagraph ==
    (Compared /\ OneLineMore(text_call.old_text, text_call.new_text, ProhibitedLine)) =>
        /\ Len(text_call.result.changes) = 1
        /\ text_call.result.changes[1].change_type = "added"
        /\ text_call.result.changes[1].impact_level = CRITICAL

\* C25: when the new text is the old text with one paragraph (line) taken
\* out, _compare_policy_texts reports exactly one change, of kind removed and
\* of impact important, whatever keywords the paragraph taken out or the rest
\* of the text hold.
C25_RemovedParagraph ==
    (Compared /\ \E l \in Lines \ {<<" ">>} :
                    OneLineMore(text_call.new_text, text_call.old_text, l)) =>
        /\ Len(text_call.result.changes) = 1
        /\ text_call.result.changes[1].change_type = "removed"
        /\ text_call.result.changes[1].impact_level = IMPORTANT

----------------------------------------------------------------------------
(* One paragraph, one change *)

----------------------------------------------------------------------------
(* A failed monitor step *)

\* the monitor task of run r, the first task the run creates
MonitorTaskOf(r) == TasksOf(r)[1]
\* what _run_with_retry returned for it
MonitorReturned(r) == frames[MonitorTaskOf(r)].ret

\* C27: when the monitor step's result has success false, returned by the
\* collaborator or produced by the runner after the retries, the run creates
\* no comparison, update, notification or memory task, ends its session with
\* status "failed" and the error in the metadata, and returns status
\* "failed"; a run whose collaborators return well-formed results ends
\* "failed" in no other way.
C27_MonitorFailureFails ==
    \A r \in DOMAIN runs :
        LET res == MonitorReturned(r)
            error == MonitorFailed(Get(res, "error", NoneStr))
        IN /\ IsFailure(res) => TypesOf(r) = <<"monitor">>
           /\ (IsFailure(res) /\ Returned(r)) =>
                 /\ runs[r].ret.status = "failed"
                 /\ runs[r].ret.error = error
                 /\ \E i \in CompletedOf(r) :
                       /\ completed_sessions[i].status = "failed"
                       /\ Has(completed_sessions[i], "metadata")
                       /\ completed_sessions[i].metadata = [error |-> error]
           /\ (Returned(r) /\ runs[r].ret.status = "failed") => IsFailure(res)

\* a run that failed because the monitor collaborator raised on every attempt
C27_Witness ==
    \E r \in DOMAIN runs :
        /\ Returned(r)
        /\ runs[r].ret.status = "failed"
        /\ tasks[MonitorTaskOf(r)].status = FAILED
        /\ Calls(MonitorTaskOf(r)) = DefaultMaxRetries + 1
        /\ TypesOf(r) = <<"monitor">>

----------------------------------------------------------------------------
(* Overlapping run_compliance_check calls *)

\* the session dict that call r created has been ended once, with the status
\* the call returned
OwnSessionEnded(r) ==
    /\ Cardinality(CompletedOf(r)) = 1
    /\ \A i \in CompletedOf(r) : completed_sessions[i].status = runs[r].ret.status
    /\ \A id \in DOMAIN active_sessions : active_sessions[id].oid # r

\* task t is in the queue until its runner has finished and in the history,
\* once, from then on, Success when its step returned and Failed otherwise
MovedOnce(t) ==
    IF frames[t].pc = "done"
    THEN /\ Terminal(t)
         /\ tasks[t].status = SUCCESS <=> observed[t].val # NoResult
    ELSE Count(task_queue, t) = 1 /\ Count(task_history, t) = 0

\* C26: when two run_compliance_check calls on one orchestrator overlap,
\* also when both are for the same policy name, each call ends its own
\* session exactly once and that session is recorded in completed_sessions
\* with the call's own status, and each task goes from the queue to the
\* history exactly once with its own final status.
C26_OverlappingRuns ==
    /\ \A r \in DOMAIN runs : Returned(r) => OwnSessionEnded(r)
    /\ \A t \in DOMAIN tasks : MovedOnce(t)

----------------------------------------------------------------------------
(* Delivery status *)

SendEmailCalled == sender.call.fn = "send_email"

\* C29: send_email on an authenticated EmailSender makes at most retry_count
\* send attempts, sleeps 2^attempt seconds (attempt counted from 0) after
\* each failed attempt but the last, and for every retry_count >= 0 returns a
\* dict with a delivery status: "sent" at the first attempt that succeeds,
\* "error" once the last attempt has failed; it does not raise and does not
\* return without a dict.
C29_SendEmailReturnsStatus ==
    (SendEmailCalled /\ sender.authenticated) =>
        LET c == sender.call
        IN /\ c.attempts <= c.retry_count
           /\ c.sleeps = [k \in 1..Len(c.sleeps) |-> Pow(2, k - 1)]
           /\ Len(c.sleeps) = IF c.attempts = 0 THEN 0 ELSE c.attempts - 1
           /\ \A k \in 1..(c.attempts - 1) : c.outcomes[k] # "ok"
           /\ Has(c.ret, "status")
           /\ c.ret.status \in {"sent", "error"}
           /\ c.ret.status = "sent" <=>
                 (c.attempts >= 1 /\ c.outcomes[c.attempts] = "ok")

NotificationSentCalled == notifier.constructed /\ notifier.call.fn = "send_notification"

\* C30: send_notification returns status "sent" only when the email service
\* reported the message as sent; when send_email returns status "error" the
\* returned status is a failure status, the same as the status recorded for
\* the email in notification_history, and get_notification_stats counts
\* every notification once: sent + failed + pending = total_notifications.
C30_ReturnedStatusAgrees ==
    NotificationSentCalled =>
        LET c == notifier.call
            history == notifier.notification_history
            stats == GetNotificationStats(history)
        IN /\ c.ret.status = "sent" => Get(c.result, "status", NoneStr) = "sent"
           /\ Get(c.result, "status", NoneStr) = "error" =>
                 /\ c.ret.status \in {"error", "failed"}
                 /\ c.ret.status = history[Len(history)].status
           /\ stats.sent + stats.failed + stats.pending = stats.total_notifications
====
